---------------------------- MODULE Spec2Model ----------------------------
(***************************************************************************)
(* UTF-8 mojibake repair tool (scripts/repair.py).                         *)
(*                                                                         *)
(* A text is a sequence of Unicode code points, a file content a sequence  *)
(* of bytes.  Optional[str] is a record [ok, val]: None is ok = FALSE.     *)
(* The codecs are the code-point-to-bytes tables of the Python codecs the  *)
(* script names; mac_roman and cp1252 are complete, shift_jis and euc_jp   *)
(* are given for the code points below U+0100 and for the other code       *)
(* points the texts of this model contain.                                 *)
(***************************************************************************)
EXTENDS Integers, Sequences, FiniteSets, TLC

\* ------------------------------------------------------------------------
\* Bounds of the model
\* ------------------------------------------------------------------------

\* a file content is the concatenation of at most MaxChunks chunks
MaxChunks == 3

\* RepairConfig.max_iterations ranges over 1..MaxIterations
MaxIterations == 3

\* main is given at most MaxFiles file arguments
MaxFiles == 2

\* a text given to the detector and to repair_text directly is the
\* concatenation of at most MaxPieces pieces
MaxPieces == 3

\* ------------------------------------------------------------------------
\* Optional values
\* ------------------------------------------------------------------------

None == [ok |-> FALSE, val |-> <<>>]

Some(v) == [ok |-> TRUE, val |-> v]

\* ------------------------------------------------------------------------
\* RepairResult
\* ------------------------------------------------------------------------

SUCCESS == "success"

SKIPPED_CLEAN == "skipped_clean"

SKIPPED_BINARY == "skipped_binary"

SKIPPED_NO_MOJIBAKE == "skipped_no_mojibake"

FAILED_READ_ERROR == "failed_read_error"

FAILED_WRITE_ERROR == "failed_write_error"

FAILED_MAX_ITERATIONS == "failed_max_iterations"

RepairResult ==
    { SUCCESS, SKIPPED_CLEAN, SKIPPED_BINARY, SKIPPED_NO_MOJIBAKE,
      FAILED_READ_ERROR, FAILED_WRITE_ERROR, FAILED_MAX_ITERATIONS }

\* ------------------------------------------------------------------------
\* RepairConfig defaults
\* ------------------------------------------------------------------------

\* ascii_threshold = 0.8 and japanese_threshold = 0.1, in tenths
ascii_threshold == 8

japanese_threshold == 1

ThresholdScale == 10

suspicious_pattern_threshold == 2

binary_check_bytes == 1024

skip_extensions ==
    { ".jpg", ".jpeg", ".png", ".gif", ".bmp", ".webp",
      ".pdf", ".doc", ".docx", ".xls", ".xlsx", ".ppt", ".pptx",
      ".mp3", ".mp4", ".avi", ".mov", ".wmv", ".flv",
      ".zip", ".tar", ".gz", ".bz2", ".7z", ".rar",
      ".exe", ".dll", ".so", ".dylib" }

repair_strategies == << "latin-1", "mac_roman", "cp1252", "shift_jis", "euc_jp" >>

\* ------------------------------------------------------------------------
\* Codecs: str.encode(strategy) and bytes.decode('utf-8')
\* ------------------------------------------------------------------------

\* code points >= 128 that mac_roman encodes
mac_roman_table ==
    (160 :> <<202>>) @@ (161 :> <<193>>) @@ (162 :> <<162>>) @@ (163 :> <<163>>) @@ (165 :> <<180>>) @@ (167 :> <<164>>) @@
    (168 :> <<172>>) @@ (169 :> <<169>>) @@ (170 :> <<187>>) @@ (171 :> <<199>>) @@ (172 :> <<194>>) @@ (174 :> <<168>>) @@
    (175 :> <<248>>) @@ (176 :> <<161>>) @@ (177 :> <<177>>) @@ (180 :> <<171>>) @@ (181 :> <<181>>) @@ (182 :> <<166>>) @@
    (183 :> <<225>>) @@ (184 :> <<252>>) @@ (186 :> <<188>>) @@ (187 :> <<200>>) @@ (191 :> <<192>>) @@ (192 :> <<203>>) @@
    (193 :> <<231>>) @@ (194 :> <<229>>) @@ (195 :> <<204>>) @@ (196 :> <<128>>) @@ (197 :> <<129>>) @@ (198 :> <<174>>) @@
    (199 :> <<130>>) @@ (200 :> <<233>>) @@ (201 :> <<131>>) @@ (202 :> <<230>>) @@ (203 :> <<232>>) @@ (204 :> <<237>>) @@
    (205 :> <<234>>) @@ (206 :> <<235>>) @@ (207 :> <<236>>) @@ (209 :> <<132>>) @@ (210 :> <<241>>) @@ (211 :> <<238>>) @@
    (212 :> <<239>>) @@ (213 :> <<205>>) @@ (214 :> <<133>>) @@ (216 :> <<175>>) @@ (217 :> <<244>>) @@ (218 :> <<242>>) @@
    (219 :> <<243>>) @@ (220 :> <<134>>) @@ (223 :> <<167>>) @@ (224 :> <<136>>) @@ (225 :> <<135>>) @@ (226 :> <<137>>) @@
    (227 :> <<139>>) @@ (228 :> <<138>>) @@ (229 :> <<140>>) @@ (230 :> <<190>>) @@ (231 :> <<141>>) @@ (232 :> <<143>>) @@
    (233 :> <<142>>) @@ (234 :> <<144>>) @@ (235 :> <<145>>) @@ (236 :> <<147>>) @@ (237 :> <<146>>) @@ (238 :> <<148>>) @@
    (239 :> <<149>>) @@ (241 :> <<150>>) @@ (242 :> <<152>>) @@ (243 :> <<151>>) @@ (244 :> <<153>>) @@ (245 :> <<155>>) @@
    (246 :> <<154>>) @@ (247 :> <<214>>) @@ (248 :> <<191>>) @@ (249 :> <<157>>) @@ (250 :> <<156>>) @@ (251 :> <<158>>) @@
    (252 :> <<159>>) @@ (255 :> <<216>>) @@ (305 :> <<245>>) @@ (338 :> <<206>>) @@ (339 :> <<207>>) @@ (376 :> <<217>>) @@
    (402 :> <<196>>) @@ (710 :> <<246>>) @@ (711 :> <<255>>) @@ (728 :> <<249>>) @@ (729 :> <<250>>) @@ (730 :> <<251>>) @@
    (731 :> <<254>>) @@ (732 :> <<247>>) @@ (733 :> <<253>>) @@ (937 :> <<189>>) @@ (960 :> <<185>>) @@ (8211 :> <<208>>) @@
    (8212 :> <<209>>) @@ (8216 :> <<212>>) @@ (8217 :> <<213>>) @@ (8218 :> <<226>>) @@ (8220 :> <<210>>) @@ (8221 :> <<211>>) @@
    (8222 :> <<227>>) @@ (8224 :> <<160>>) @@ (8225 :> <<224>>) @@ (8226 :> <<165>>) @@ (8230 :> <<201>>) @@ (8240 :> <<228>>) @@
    (8249 :> <<220>>) @@ (8250 :> <<221>>) @@ (8260 :> <<218>>) @@ (8364 :> <<219>>) @@ (8482 :> <<170>>) @@ (8706 :> <<182>>) @@
    (8710 :> <<198>>) @@ (8719 :> <<184>>) @@ (8721 :> <<183>>) @@ (8730 :> <<195>>) @@ (8734 :> <<176>>) @@ (8747 :> <<186>>) @@
    (8776 :> <<197>>) @@ (8800 :> <<173>>) @@ (8804 :> <<178>>) @@ (8805 :> <<179>>) @@ (9674 :> <<215>>) @@ (63743 :> <<240>>) @@
    (64257 :> <<222>>) @@ (64258 :> <<223>>)

\* code points >= 128 that cp1252 encodes
cp1252_table ==
    [c \in 160..255 |-> <<c>>] @@
    (338 :> <<140>>) @@ (339 :> <<156>>) @@ (352 :> <<138>>) @@ (353 :> <<154>>) @@ (376 :> <<159>>) @@ (381 :> <<142>>) @@
    (382 :> <<158>>) @@ (402 :> <<131>>) @@ (710 :> <<136>>) @@ (732 :> <<152>>) @@ (8211 :> <<150>>) @@ (8212 :> <<151>>) @@
    (8216 :> <<145>>) @@ (8217 :> <<146>>) @@ (8218 :> <<130>>) @@ (8220 :> <<147>>) @@ (8221 :> <<148>>) @@ (8222 :> <<132>>) @@
    (8224 :> <<134>>) @@ (8225 :> <<135>>) @@ (8226 :> <<149>>) @@ (8230 :> <<133>>) @@ (8240 :> <<137>>) @@ (8249 :> <<139>>) @@
    (8250 :> <<155>>) @@ (8364 :> <<128>>) @@ (8482 :> <<153>>)

\* shift_jis, code points 128..255 and U+0329, U+201A, U+20AC, U+3042, U+3080
shift_jis_table ==
    (162 :> <<129, 145>>) @@ (163 :> <<129, 146>>) @@ (165 :> <<92>>) @@ (167 :> <<129, 152>>) @@ (168 :> <<129, 78>>) @@
    (172 :> <<129, 202>>) @@ (176 :> <<129, 139>>) @@ (177 :> <<129, 125>>) @@ (180 :> <<129, 76>>) @@ (182 :> <<129, 247>>) @@
    (215 :> <<129, 126>>) @@ (247 :> <<129, 128>>) @@ (12354 :> <<130, 160>>) @@ (12416 :> <<130, 222>>)

\* euc_jp, code points 128..255 and U+0329, U+201A, U+20AC, U+3042, U+3080
euc_jp_table ==
    (161 :> <<143, 162, 194>>) @@ (162 :> <<161, 241>>) @@ (163 :> <<161, 242>>) @@ (164 :> <<143, 162, 240>>) @@
    (165 :> <<92>>) @@ (166 :> <<143, 162, 195>>) @@ (167 :> <<161, 248>>) @@ (168 :> <<161, 175>>) @@
    (169 :> <<143, 162, 237>>) @@ (170 :> <<143, 162, 236>>) @@ (172 :> <<162, 204>>) @@ (174 :> <<143, 162, 238>>) @@
    (175 :> <<143, 162, 180>>) @@ (176 :> <<161, 235>>) @@ (177 :> <<161, 222>>) @@ (180 :> <<161, 173>>) @@
    (182 :> <<162, 249>>) @@ (184 :> <<143, 162, 177>>) @@ (186 :> <<143, 162, 235>>) @@ (191 :> <<143, 162, 196>>) @@
    (192 :> <<143, 170, 162>>) @@ (193 :> <<143, 170, 161>>) @@ (194 :> <<143, 170, 164>>) @@ (195 :> <<143, 170, 170>>) @@
    (196 :> <<143, 170, 163>>) @@ (197 :> <<143, 170, 169>>) @@ (198 :> <<143, 169, 161>>) @@ (199 :> <<143, 170, 174>>) @@
    (200 :> <<143, 170, 178>>) @@ (201 :> <<143, 170, 177>>) @@ (202 :> <<143, 170, 180>>) @@ (203 :> <<143, 170, 179>>) @@
    (204 :> <<143, 170, 192>>) @@ (205 :> <<143, 170, 191>>) @@ (206 :> <<143, 170, 194>>) @@ (207 :> <<143, 170, 193>>) @@
    (209 :> <<143, 170, 208>>) @@ (210 :> <<143, 170, 210>>) @@ (211 :> <<143, 170, 209>>) @@ (212 :> <<143, 170, 212>>) @@
    (213 :> <<143, 170, 216>>) @@ (214 :> <<143, 170, 211>>) @@ (215 :> <<161, 223>>) @@ (216 :> <<143, 169, 172>>) @@
    (217 :> <<143, 170, 227>>) @@ (218 :> <<143, 170, 226>>) @@ (219 :> <<143, 170, 229>>) @@ (220 :> <<143, 170, 228>>) @@
    (221 :> <<143, 170, 242>>) @@ (222 :> <<143, 169, 176>>) @@ (223 :> <<143, 169, 206>>) @@ (224 :> <<143, 171, 162>>) @@
    (225 :> <<143, 171, 161>>) @@ (226 :> <<143, 171, 164>>) @@ (227 :> <<143, 171, 170>>) @@ (228 :> <<143, 171, 163>>) @@
    (229 :> <<143, 171, 169>>) @@ (230 :> <<143, 169, 193>>) @@ (231 :> <<143, 171, 174>>) @@ (232 :> <<143, 171, 178>>) @@
    (233 :> <<143, 171, 177>>) @@ (234 :> <<143, 171, 180>>) @@ (235 :> <<143, 171, 179>>) @@ (236 :> <<143, 171, 192>>) @@
    (237 :> <<143, 171, 191>>) @@ (238 :> <<143, 171, 194>>) @@ (239 :> <<143, 171, 193>>) @@ (240 :> <<143, 169, 195>>) @@
    (241 :> <<143, 171, 208>>) @@ (242 :> <<143, 171, 210>>) @@ (243 :> <<143, 171, 209>>) @@ (244 :> <<143, 171, 212>>) @@
    (245 :> <<143, 171, 216>>) @@ (246 :> <<143, 171, 211>>) @@ (247 :> <<161, 224>>) @@ (248 :> <<143, 169, 204>>) @@
    (249 :> <<143, 171, 227>>) @@ (250 :> <<143, 171, 226>>) @@ (251 :> <<143, 171, 229>>) @@ (252 :> <<143, 171, 228>>) @@
    (253 :> <<143, 171, 242>>) @@ (254 :> <<143, 169, 208>>) @@ (255 :> <<143, 171, 243>>) @@ (12354 :> <<164, 162>>) @@
    (12416 :> <<164, 224>>)

\* the bytes of one code point in a strategy's codec; <<>> when the codec
\* cannot encode it (UnicodeEncodeError)
EncodeChar(strategy, c) ==
    IF c < 128 THEN <<c>>
    ELSE CASE strategy = "latin-1" -> IF c < 256 THEN <<c>> ELSE <<>>
           [] strategy = "mac_roman" ->
                IF c \in DOMAIN mac_roman_table THEN mac_roman_table[c] ELSE <<>>
           [] strategy = "cp1252" ->
                IF c \in DOMAIN cp1252_table THEN cp1252_table[c] ELSE <<>>
           [] strategy = "shift_jis" ->
                IF c \in DOMAIN shift_jis_table THEN shift_jis_table[c] ELSE <<>>
           [] strategy = "euc_jp" ->
                IF c \in DOMAIN euc_jp_table THEN euc_jp_table[c] ELSE <<>>

RECURSIVE EncodeFrom(_, _, _)
\* the bytes of text[i..] in a strategy's codec, every code point encodable
EncodeFrom(text, strategy, i) ==
    IF i > Len(text) THEN <<>>
    ELSE EncodeChar(strategy, text[i]) \o EncodeFrom(text, strategy, i + 1)

\* text.encode(strategy): None stands for UnicodeEncodeError
Encode(text, strategy) ==
    IF \E i \in 1..Len(text) : EncodeChar(strategy, text[i]) = <<>>
    THEN None
    ELSE Some(EncodeFrom(text, strategy, 1))

\* the UTF-8 bytes of one code point
Utf8EncodeChar(c) ==
    IF c < 128 THEN <<c>>
    ELSE IF c < 2048 THEN << 192 + (c \div 64), 128 + (c % 64) >>
    ELSE IF c < 65536
         THEN << 224 + (c \div 4096), 128 + ((c \div 64) % 64), 128 + (c % 64) >>
         ELSE << 240 + (c \div 262144), 128 + ((c \div 4096) % 64),
                 128 + ((c \div 64) % 64), 128 + (c % 64) >>

RECURSIVE Utf8EncodeFrom(_, _)
\* the UTF-8 bytes of text[i..]
Utf8EncodeFrom(text, i) ==
    IF i > Len(text) THEN <<>>
    ELSE Utf8EncodeChar(text[i]) \o Utf8EncodeFrom(text, i + 1)

\* text.encode('utf-8')
Utf8Encode(text) == Utf8EncodeFrom(text, 1)

\* length of the UTF-8 sequence a lead byte starts, 0 for an invalid lead
Utf8SeqLen(b) ==
    IF b < 128 THEN 1
    ELSE IF b \in 194..223 THEN 2
    ELSE IF b \in 224..239 THEN 3
    ELSE IF b \in 240..244 THEN 4
    ELSE 0

\* the values the second byte of a sequence may take (no overlong forms, no
\* surrogates, nothing above U+10FFFF)
Utf8SecondByte(b) ==
    CASE b = 224 -> 160..191
      [] b = 237 -> 128..159
      [] b = 240 -> 144..191
      [] b = 244 -> 128..143
      [] OTHER -> 128..191

\* is there a well-formed UTF-8 sequence at position i of bytes
Utf8ValidAt(bytes, i) ==
    LET n == Utf8SeqLen(bytes[i])
    IN  /\ n > 0
        /\ i + n - 1 <= Len(bytes)
        /\ n >= 2 => bytes[i + 1] \in Utf8SecondByte(bytes[i])
        /\ \A k \in 2..(n - 1) : bytes[i + k] \in 128..191

\* the code point of the well-formed sequence at position i
Utf8CodePointAt(bytes, i) ==
    LET n == Utf8SeqLen(bytes[i])
    IN  CASE n = 1 -> bytes[i]
          [] n = 2 -> (bytes[i] - 192) * 64 + (bytes[i + 1] - 128)
          [] n = 3 -> (bytes[i] - 224) * 4096 + (bytes[i + 1] - 128) * 64
                      + (bytes[i + 2] - 128)
          [] n = 4 -> (bytes[i] - 240) * 262144 + (bytes[i + 1] - 128) * 4096
                      + (bytes[i + 2] - 128) * 64 + (bytes[i + 3] - 128)

RECURSIVE Utf8DecodeFrom(_, _)
\* strict decoding of bytes[i..]: None stands for UnicodeDecodeError
Utf8DecodeFrom(bytes, i) ==
    IF i > Len(bytes) THEN Some(<<>>)
    ELSE IF ~Utf8ValidAt(bytes, i) THEN None
    ELSE LET rest == Utf8DecodeFrom(bytes, i + Utf8SeqLen(bytes[i]))
         IN  IF rest.ok
             THEN Some(<<Utf8CodePointAt(bytes, i)>> \o rest.val)
             ELSE None

\* bytes.decode('utf-8')
Utf8Decode(bytes) == Utf8DecodeFrom(bytes, 1)

\* ------------------------------------------------------------------------
\* State
\* ------------------------------------------------------------------------

VARIABLES
    config,         \* RepairConfig: the fields an invocation may override
    argv,           \* sys.argv[1:], a sequence of paths [stem, suffix]
    disk,           \* the bytes of every file named in argv
    pc,             \* the statement main / repair_file is at
    idx,            \* position of main's for loop in argv
    results,        \* the RepairResult main has received for each file so far
    file_path,      \* repair_file: its argument
    original_text,  \* repair_file: Optional[str] returned by read_file_safely
    current_text,   \* repair_file: the buffer the loop repairs next
    repaired_text,  \* repair_file: Optional[str] returned by repair_text
    iterations,     \* repair_file: the loop counter
    result,         \* repair_file: the value it returns
    disk0,          \* history: the disk when this repair_file call began
    calls,          \* history: the functions this repair_file call has called
    writes,         \* history: the write_file_safely calls of this call
    detected,       \* the detector's answers for current_text, once asked
    tried           \* try_repair_with_strategy(current_text, s), s in order

vars ==
    << config, argv, disk, pc, idx, results, file_path, original_text,
       current_text, repaired_text, iterations, result, disk0, calls, writes,
       detected, tried >>

\* ------------------------------------------------------------------------
\* MojibakeDetector
\* ------------------------------------------------------------------------

\* r'[ãâ][â¢â£â¤â¥â¦â§â¨â©âªâ«â¬â­â®â¯]': the two character classes
PatternLead == {227, 226}

PatternTrail == {226} \cup 162..175

\* re.search(MOJIBAKE_PATTERNS[0], text)
SearchLeadTrail(text) ==
    \E i \in 1..(Len(text) - 1) :
        text[i] \in PatternLead /\ text[i + 1] \in PatternTrail

\* re.search(r'ã{3,}', text)
SearchTripleA(text) ==
    \E i \in 1..(Len(text) - 2) :
        text[i] = 227 /\ text[i + 1] = 227 /\ text[i + 2] = 227

\* re.search(r'â.{1,3}â', text); '.' matches anything but a newline
SearchCircumflexPair(text) ==
    \E i \in 1..Len(text) : \E k \in 1..3 :
        /\ i + k + 1 <= Len(text)
        /\ text[i] = 226
        /\ text[i + k + 1] = 226
        /\ \A j \in 1..k : text[i + j] # 10

MOJIBAKE_PATTERNS(text) ==
    << SearchLeadTrail(text), SearchTripleA(text), SearchCircumflexPair(text) >>

\* 'ã', 'â', 'Ã', 'Â', 'ç', 'æ', 'é', 'è': one code point each
SUSPICIOUS_SEQUENCES == << 227, 226, 195, 194, 231, 230, 233, 232 >>

JAPANESE_RANGES ==
    << <<12352, 12447>>, <<12448, 12543>>, <<19968, 40879>>, <<65280, 65519>> >>

\* text.count(seq) for a one-character seq
Count(text, seq) == Cardinality({ i \in 1..Len(text) : text[i] = seq })

RECURSIVE SuspiciousCountFrom(_, _)
\* sum(text.count(seq) for seq in SUSPICIOUS_SEQUENCES[k..])
SuspiciousCountFrom(text, k) ==
    IF k > Len(SUSPICIOUS_SEQUENCES) THEN 0
    ELSE Count(text, SUSPICIOUS_SEQUENCES[k]) + SuspiciousCountFrom(text, k + 1)

has_mojibake_patterns(text) ==
    \/ \E p \in 1..Len(MOJIBAKE_PATTERNS(text)) : MOJIBAKE_PATTERNS(text)[p]
    \/ SuspiciousCountFrom(text, 1) > config.suspicious_pattern_threshold

\* sum(1 for c in text if ord(c) < 128)
AsciiCount(text) == Cardinality({ i \in 1..Len(text) : text[i] < 128 })

\* sum(1 for char in text if any(start <= ord(char) <= end ...))
JapaneseCount(text) ==
    Cardinality({ i \in 1..Len(text) :
        \E r \in 1..Len(JAPANESE_RANGES) :
            JAPANESE_RANGES[r][1] <= text[i] /\ text[i] <= JAPANESE_RANGES[r][2] })

\* the ratios are compared with the thresholds in tenths:
\* count / len > t / 10  iff  count * 10 > t * len
\* appears_clean_utf8 with a ratio equal to its threshold counting as above it
appears_clean_utf8_inclusive(text) ==
    IF text = <<>> THEN TRUE
    ELSE IF has_mojibake_patterns(text) THEN FALSE
    ELSE IF AsciiCount(text) * ThresholdScale >= config.ascii_threshold * Len(text)
         THEN TRUE
    ELSE JapaneseCount(text) * ThresholdScale >= config.japanese_threshold * Len(text)

appears_clean_utf8(text) ==
    IF text = <<>> THEN TRUE
    ELSE IF has_mojibake_patterns(text) THEN FALSE
    ELSE IF AsciiCount(text) * ThresholdScale > config.ascii_threshold * Len(text)
         THEN TRUE
    ELSE JapaneseCount(text) * ThresholdScale > config.japanese_threshold * Len(text)

\* should_repair with the second conjunct lost
should_repair_not_clean(text) ==
    ~appears_clean_utf8(text)

should_repair(text) ==
    ~appears_clean_utf8(text) /\ has_mojibake_patterns(text)

\* ------------------------------------------------------------------------
\* FileProcessor
\* ------------------------------------------------------------------------

\* str.lower() on the suffixes of the model's paths
Lower(suffix) ==
    CASE suffix = ".PNG" -> ".png"
      [] OTHER -> suffix

\* should_skip_file comparing the suffix as written, without lower()
should_skip_file_exact(path) == path.suffix \in skip_extensions

should_skip_file(path) == Lower(path.suffix) \in skip_extensions

Min(a, b) == IF a <= b THEN a ELSE b

\* is_binary_file sampling one byte too few
is_binary_file_short(content) ==
    LET check_size == Min(Len(content), config.binary_check_bytes)
    IN  \E i \in 1..(check_size - 1) : content[i] = 0

is_binary_file(content) ==
    LET check_size == Min(Len(content), config.binary_check_bytes)
    IN  \E i \in 1..check_size : content[i] = 0

\* ioOk: open() and read() raise no IOError
read_file_safely(path, ioOk) ==
    IF ~ioOk THEN None
    ELSE LET raw_content == disk[path]
         IN  IF is_binary_file(raw_content) THEN None
             ELSE Utf8Decode(raw_content)

\* write_file_safely opening the file to append instead of truncating it
write_file_safely_append(old, content) ==
    LET bytes == Utf8Encode(content)
    IN  { [ret |-> TRUE, data |-> old \o bytes], [ret |-> FALSE, data |-> old] }
        \cup { [ret |-> FALSE, data |-> old \o SubSeq(bytes, 1, n)] : n \in 0..Len(bytes) }

\* The possible outcomes of write_file_safely on a file holding old: the
\* value returned and the bytes the file holds afterwards.  open(.., 'w')
\* truncates the file; an IOError raised by open leaves the file as it was,
\* one raised by write or close leaves a prefix of the new bytes.
write_file_safely(old, content) ==
    LET bytes == Utf8Encode(content)
    IN  { [ret |-> TRUE, data |-> bytes], [ret |-> FALSE, data |-> old] }
        \cup { [ret |-> FALSE, data |-> SubSeq(bytes, 1, n)] : n \in 0..Len(bytes) }

\* ------------------------------------------------------------------------
\* MojibakeRepairer
\* ------------------------------------------------------------------------

\* try_repair_with_strategy returning the decoded text without validating it
try_repair_with_strategy_unvalidated(text, strategy) ==
    CHOOSE r \in
        { IF ~repaired_bytes.ok THEN None
          ELSE Utf8Decode(repaired_bytes.val) :
          repaired_bytes \in { Encode(text, strategy) } } : TRUE

\* encode with the strategy, decode as UTF-8, validate; the two except
\* clauses return None.  repaired_bytes and repaired are bound variables, so
\* that each is computed once.
try_repair_with_strategy(text, strategy) ==
    CHOOSE r \in
        { IF ~repaired_bytes.ok THEN None
          ELSE CHOOSE v \in
                   { IF ~repaired.ok THEN None
                     ELSE IF /\ ~has_mojibake_patterns(repaired.val)
                             /\ appears_clean_utf8(repaired.val)
                          THEN repaired
                          ELSE None :
                     repaired \in { Utf8Decode(repaired_bytes.val) } } : TRUE :
          repaired_bytes \in { Encode(text, strategy) } } : TRUE

RECURSIVE RepairTextFrom(_, _)
\* the for loop of repair_text returning the first accepted result, changed
\* or not
RepairTextFromAccepted(text, k) ==
    IF k > Len(repair_strategies) THEN None
    ELSE LET repaired == try_repair_with_strategy(text, repair_strategies[k])
         IN  IF repaired.ok
             THEN repaired
             ELSE RepairTextFrom(text, k + 1)

\* the for loop of repair_text from the k-th strategy on
RepairTextFrom(text, k) ==
    IF k > Len(repair_strategies) THEN None
    ELSE LET repaired == try_repair_with_strategy(text, repair_strategies[k])
         IN  IF repaired.ok /\ Utf8Encode(repaired.val) # Utf8Encode(text)
             THEN repaired
             ELSE RepairTextFrom(text, k + 1)

\* repair_text leaving out the first strategy
repair_text_from_second(text) == RepairTextFrom(text, 2)

repair_text(text) == RepairTextFrom(text, 1)

\* ------------------------------------------------------------------------
\* Inputs
\* ------------------------------------------------------------------------

\* The pieces file contents are made of, as bytes:
\*   "a"; a null byte; a byte that is not UTF-8; "ã" (U+00E3); "â" (U+00E2);
\*   "é" read as latin-1 ("Ã©"); "あ" read as latin-1 ("ã", U+0081, U+0082);
\*   "あ" read as latin-1 twice; "む" read as cp1252 ("ã‚€")
Chunks ==
    { <<97>>, <<0>>, <<255>>, <<195, 163>>, <<195, 162>>,
      <<195, 131, 194, 169>>,
      <<195, 163, 194, 129, 194, 130>>,
      <<195, 131, 194, 163, 195, 130, 194, 129, 195, 130, 194, 130>>,
      <<195, 163, 226, 128, 154, 226, 130, 172>> }

RECURSIVE ContentsOfLen(_)
ContentsOfLen(n) ==
    IF n = 0 THEN { <<>> }
    ELSE { c \o k : c \in ContentsOfLen(n - 1), k \in Chunks }

Contents == UNION { ContentsOfLen(n) : n \in 0..MaxChunks }

Suffixes == { ".txt", ".png", ".PNG" }

Paths == { [stem |-> "notes", suffix |-> s] : s \in Suffixes }

Configs ==
    [ max_iterations : 1..MaxIterations,
      suspicious_pattern_threshold : {0, suspicious_pattern_threshold},
      binary_check_bytes : {2, binary_check_bytes},
      ascii_threshold : {ascii_threshold},
      japanese_threshold : {japanese_threshold} ]

\* the detector has not been asked
NotDetected ==
    [ has_mojibake_patterns |-> FALSE, appears_clean_utf8 |-> FALSE,
      should_repair |-> FALSE ]

\* ------------------------------------------------------------------------
\* main and repair_file
\* ------------------------------------------------------------------------

\* the state before main's loop, given the arguments and the files
Begin(args, files) ==
    /\ argv = args
    /\ disk = files
    /\ pc = "main"
    /\ idx = 1
    /\ results = <<>>
    /\ file_path = args[1]
    /\ original_text = None
    /\ current_text = <<>>
    /\ repaired_text = None
    /\ iterations = 0
    /\ result = "none"
    /\ disk0 = files
    /\ calls = <<>>
    /\ writes = <<>>
    /\ detected = NotDetected
    /\ tried = <<>>

\* one file argument
Init ==
    /\ config \in Configs
    /\ \E p \in Paths, c \in Contents : Begin(<<p>>, p :> c)

\* return r from repair_file
Return(r) ==
    /\ result' = r
    /\ pc' = "return"

\* main: the for loop calls repair_file on the next argument
MainLoop ==
    /\ pc = "main"
    /\ idx <= Len(argv)
    /\ pc' = "skip_check"
    /\ file_path' = argv[idx]
    /\ original_text' = None
    /\ current_text' = <<>>
    /\ repaired_text' = None
    /\ iterations' = 0
    /\ result' = "none"
    /\ disk0' = disk
    /\ calls' = <<>>
    /\ writes' = <<>>
    /\ UNCHANGED << detected, tried >>
    /\ UNCHANGED << config, argv, disk, idx, results >>

\* main giving up at the first file that fails
MainRecordAbort ==
    /\ pc = "return"
    /\ results' = Append(results, result)
    /\ idx' = idx + 1
    /\ pc' = IF result \in {FAILED_READ_ERROR, FAILED_WRITE_ERROR, FAILED_MAX_ITERATIONS}
             THEN "exit"
             ELSE "main"
    /\ UNCHANGED << detected, tried >>
    /\ UNCHANGED << config, argv, disk, file_path, original_text, current_text,
                    repaired_text, iterations, result, disk0, calls, writes >>

\* main: repair_file has returned; the result is logged, the loop goes on
MainRecord ==
    /\ pc = "return"
    /\ results' = Append(results, result)
    /\ idx' = idx + 1
    /\ pc' = "main"
    /\ UNCHANGED << detected, tried >>
    /\ UNCHANGED << config, argv, disk, file_path, original_text, current_text,
                    repaired_text, iterations, result, disk0, calls, writes >>

\* main: the for loop is over
MainExit ==
    /\ pc = "main"
    /\ idx > Len(argv)
    /\ pc' = "exit"
    /\ UNCHANGED << detected, tried >>
    /\ UNCHANGED << config, argv, disk, idx, results, file_path, original_text,
                    current_text, repaired_text, iterations, result, disk0,
                    calls, writes >>

\* repair_file: skip based on file extension
SkipCheck ==
    /\ pc = "skip_check"
    /\ calls' = Append(calls, "should_skip_file")
    /\ IF should_skip_file(file_path)
       THEN Return(SKIPPED_BINARY)
       ELSE pc' = "read" /\ UNCHANGED result
    /\ UNCHANGED << detected, tried >>
    /\ UNCHANGED << config, argv, disk, idx, results, file_path, original_text,
                    current_text, repaired_text, iterations, disk0, writes >>

\* repair_file: read file content
ReadFile ==
    /\ pc = "read"
    /\ calls' = Append(calls, "read_file_safely")
    /\ \E ioOk \in BOOLEAN :
         /\ original_text' = read_file_safely(file_path, ioOk)
         /\ IF ~original_text'.ok
            THEN Return(FAILED_READ_ERROR)
            ELSE pc' = "detect" /\ UNCHANGED result
    /\ UNCHANGED << detected, tried >>
    /\ UNCHANGED << config, argv, disk, idx, results, file_path, current_text,
                    repaired_text, iterations, disk0, writes >>

\* repair_file: check if file needs repair
CheckNeedsRepair ==
    /\ pc = "detect"
    /\ calls' = Append(calls, "should_repair")
    /\ IF ~should_repair(original_text.val)
       THEN /\ Return(SKIPPED_NO_MOJIBAKE)
            /\ UNCHANGED << current_text, iterations >>
       ELSE /\ current_text' = original_text.val
            /\ iterations' = 0
            /\ pc' = "loop"
            /\ UNCHANGED result
    /\ UNCHANGED << detected, tried >>
    /\ UNCHANGED << config, argv, disk, idx, results, file_path, original_text,
                    repaired_text, disk0, writes >>

\* the statements after the while loop with <= for ==
AfterLoopAtMost(n) ==
    IF n <= config.max_iterations
    THEN FAILED_MAX_ITERATIONS
    ELSE SKIPPED_NO_MOJIBAKE

\* repair_file: the statements after the while loop
AfterLoop(n) ==
    IF n = config.max_iterations
    THEN FAILED_MAX_ITERATIONS
    ELSE SKIPPED_NO_MOJIBAKE

\* repair_file: the loop test, and the body up to the break
RepairLoop ==
    /\ pc = "loop"
    /\ IF iterations < config.max_iterations
       THEN LET repaired == repair_text(current_text)
            IN  /\ iterations' = iterations + 1
                /\ repaired_text' = repaired
                /\ calls' = Append(calls, "repair_text")
                /\ IF repaired.ok
                   THEN pc' = "write" /\ UNCHANGED result
                   ELSE Return(AfterLoop(iterations + 1))
       ELSE /\ Return(AfterLoop(iterations))
            /\ UNCHANGED << iterations, repaired_text, calls >>
    /\ UNCHANGED << detected, tried >>
    /\ UNCHANGED << config, argv, disk, idx, results, file_path, original_text,
                    current_text, disk0, writes >>

\* a failed write followed by another attempt instead of a return
WriteFailedRetry ==
    /\ pc' = "write"
    /\ UNCHANGED result

\* repair_file: write_file_safely returned False
WriteFailed == Return(FAILED_WRITE_ERROR)

\* repair_file: write repaired content, check if further repair is needed
WriteRepaired ==
    /\ pc = "write"
    /\ \E w \in write_file_safely(disk[file_path], repaired_text.val) :
         /\ disk' = [disk EXCEPT ![file_path] = w.data]
         /\ writes' = Append(writes, [ iteration |-> iterations,
                                       source |-> current_text,
                                       content |-> repaired_text.val,
                                       ret |-> w.ret ])
         /\ IF ~w.ret
            THEN /\ calls' = Append(calls, "write_file_safely")
                 /\ WriteFailed
                 /\ UNCHANGED current_text
            ELSE /\ calls' = calls \o << "write_file_safely", "should_repair" >>
                 /\ IF ~should_repair(repaired_text.val)
                    THEN Return(SUCCESS) /\ UNCHANGED current_text
                    ELSE /\ current_text' = repaired_text.val
                         /\ pc' = "loop"
                         /\ UNCHANGED result
    /\ UNCHANGED << detected, tried >>
    /\ UNCHANGED << config, argv, idx, results, file_path, original_text,
                    repaired_text, iterations, disk0 >>

Next ==
    \/ MainLoop
    \/ SkipCheck
    \/ ReadFile
    \/ CheckNeedsRepair
    \/ RepairLoop
    \/ WriteRepaired
    \/ MainRecord
    \/ MainExit

Spec == Init /\ [][Next]_vars

\* ------------------------------------------------------------------------
\* main with several file arguments
\* ------------------------------------------------------------------------

MainPaths ==
    { [stem |-> "a", suffix |-> ".txt"], [stem |-> "b", suffix |-> ".txt"],
      [stem |-> "c", suffix |-> ".png"] }

\* "a"; "ããã"; "あ" read as latin-1; the same followed by a null byte
MainContents ==
    { <<97>>, <<195, 163, 195, 163, 195, 163>>,
      <<195, 163, 194, 129, 194, 130>>,
      <<195, 163, 194, 129, 194, 130, 0>> }

MainConfigs ==
    [ max_iterations : 1..MaxIterations,
      suspicious_pattern_threshold : {0, suspicious_pattern_threshold},
      binary_check_bytes : {6, binary_check_bytes},
      ascii_threshold : {ascii_threshold},
      japanese_threshold : {japanese_threshold} ]

ArgvChoices == UNION { [1..n -> MainPaths] : n \in 1..MaxFiles }

InitMain ==
    /\ config \in MainConfigs
    /\ \E args \in ArgvChoices :
         \E files \in [{ args[i] : i \in 1..Len(args) } -> MainContents] :
             Begin(args, files)

\* the script is one sequential process: it takes a step whenever it can
SpecMain == InitMain /\ [][Next]_vars /\ WF_vars(Next)

\* ------------------------------------------------------------------------
\* The detector and the repair engine on a text
\* ------------------------------------------------------------------------

\* The pieces texts are made of, as code points:
\*   "a"; "aaaa"; "あ"; "é"; "ã"; "â"; "é" read as latin-1 ("Ã©");
\*   "む" read as cp1252 ("ã‚€")
TextPieces ==
    { <<97>>, <<97, 97, 97, 97>>, <<12354>>, <<233>>, <<227>>, <<226>>,
      <<195, 169>>, <<227, 8218, 8364>> }

RECURSIVE TextsOfLen(_)
TextsOfLen(n) ==
    IF n = 0 THEN { <<>> }
    ELSE { t \o p : t \in TextsOfLen(n - 1), p \in TextPieces }

Texts == UNION { TextsOfLen(n) : n \in 0..MaxPieces }

TextConfigs ==
    [ max_iterations : {1},
      suspicious_pattern_threshold : {0, suspicious_pattern_threshold},
      binary_check_bytes : {binary_check_bytes},
      ascii_threshold : {5, ascii_threshold},
      japanese_threshold : {japanese_threshold, 5} ]

\* a detector and a repairer are constructed and given a text
InitText ==
    /\ config \in TextConfigs
    /\ current_text \in Texts
    /\ pc = "detector"
    /\ detected = NotDetected
    /\ tried = <<>>
    /\ repaired_text = None
    /\ argv = <<>>
    /\ disk = <<>>
    /\ idx = 1
    /\ results = <<>>
    /\ file_path = [stem |-> "", suffix |-> ""]
    /\ original_text = None
    /\ iterations = 0
    /\ result = "none"
    /\ disk0 = <<>>
    /\ calls = <<>>
    /\ writes = <<>>

\* the three methods of MojibakeDetector on the text
Detect ==
    /\ pc = "detector"
    /\ detected' =
           [ has_mojibake_patterns |-> has_mojibake_patterns(current_text),
             appears_clean_utf8 |-> appears_clean_utf8(current_text),
             should_repair |-> should_repair(current_text) ]
    /\ pc' = "strategy"
    /\ UNCHANGED << config, argv, disk, idx, results, file_path, original_text,
                    current_text, repaired_text, iterations, result, disk0,
                    calls, writes, tried >>

\* try_repair_with_strategy on the text with the next strategy; the encoded
\* bytes and the decoded text are recorded with what it returns
TryStrategy ==
    /\ pc = "strategy"
    /\ LET strategy == repair_strategies[Len(tried) + 1]
           repaired_bytes == Encode(current_text, strategy)
       IN  tried' = Append(tried,
               [ strategy |-> strategy,
                 encoded |-> repaired_bytes.ok,
                 decoded |-> IF repaired_bytes.ok
                             THEN Utf8Decode(repaired_bytes.val)
                             ELSE None,
                 returned |-> try_repair_with_strategy(current_text, strategy) ])
    /\ pc' = IF Len(tried') = Len(repair_strategies)
             THEN "repair_text"
             ELSE "strategy"
    /\ UNCHANGED << config, argv, disk, idx, results, file_path, original_text,
                    current_text, repaired_text, iterations, result, disk0,
                    calls, writes, detected >>

\* repair_text on the text
RepairText ==
    /\ pc = "repair_text"
    /\ repaired_text' = repair_text(current_text)
    /\ pc' = "done"
    /\ UNCHANGED << config, argv, disk, idx, results, file_path, original_text,
                    current_text, iterations, result, disk0, calls, writes,
                    detected, tried >>

NextText ==
    \/ Detect
    \/ TryStrategy
    \/ RepairText

SpecText == InitText /\ [][NextText]_vars

\* ------------------------------------------------------------------------
\* Properties of repair_file
\* ------------------------------------------------------------------------

\* C1: every call of write_file_safely writes the buffer repair_text returned
\* in that iteration: some strategy encodes the loop's current buffer, the
\* bytes decode as UTF-8 to the written buffer, and the written buffer is
\* clean and has no mojibake patterns; nothing unvalidated is written.
C1_WritesAreValidated ==
    \A i \in 1..Len(writes) :
        LET w == writes[i]
        IN  /\ \E k \in 1..Len(repair_strategies) :
                 LET bytes == Encode(w.source, repair_strategies[k])
                 IN  /\ bytes.ok
                     /\ Utf8Decode(bytes.val).ok
                     /\ Utf8Decode(bytes.val).val = w.content
            /\ appears_clean_utf8(w.content)
            /\ ~has_mojibake_patterns(w.content)
            /\ repair_text(w.source) = Some(w.content)

\* a repaired buffer has been written
C1_Witness ==
    /\ pc = "return"
    /\ Len(writes) = 1
    /\ writes[1].ret
    /\ writes[1].source = original_text.val

\* C2: when repair_file returns SkippedBinary, FailedReadError or
\* SkippedNoMojibake (also from inside the repair loop), it has written
\* nothing and the files are as they were when it was called.
C2_SkippedLeavesFile ==
    (pc = "return" /\ result \in {SKIPPED_BINARY, FAILED_READ_ERROR, SKIPPED_NO_MOJIBAKE})
        => (writes = <<>> /\ disk = disk0)

\* SkippedNoMojibake returned from inside the repair loop
C2_Witness ==
    /\ pc = "return"
    /\ result = SKIPPED_NO_MOJIBAKE
    /\ iterations >= 1
    /\ disk = disk0

\* C3: when the write of the first repaired buffer fails, the file holds the
\* content it had before the call.
C3_FailedWriteLeavesFile ==
    (pc = "return" /\ result = FAILED_WRITE_ERROR /\ Len(writes) = 1)
        => disk[file_path] = disk0[file_path]

\* C4: when repair_text returns none, repair_file returns SkippedNoMojibake,
\* never FailedMaxIterations.
C4_StallIsNoMojibake ==
    (pc = "return" /\ calls # <<>> /\ calls[Len(calls)] = "repair_text"
        /\ ~repaired_text.ok)
        => result = SKIPPED_NO_MOJIBAKE

\* C5: a text that needs two passes (some strategy turns it into a text that
\* still needs repair, and some strategy turns that one into a text that
\* needs none and passes validation) is repaired in two passes when the
\* budget allows two and no read or write fails: 2 writes, Success,
\* iterations = 2.
C5_TwoPasses ==
    (/\ pc = "return"
     /\ original_text.ok
     /\ config.max_iterations >= 2
     /\ \A i \in 1..Len(writes) : writes[i].ret
     /\ should_repair(original_text.val)
     /\ \E k1, k2 \in 1..Len(repair_strategies) :
          LET b1 == Encode(original_text.val, repair_strategies[k1])
              t1 == IF b1.ok THEN Utf8Decode(b1.val) ELSE None
              b2 == IF t1.ok THEN Encode(t1.val, repair_strategies[k2]) ELSE None
              t2 == IF b2.ok THEN Utf8Decode(b2.val) ELSE None
          IN  /\ t1.ok /\ should_repair(t1.val)
              /\ t2.ok /\ ~should_repair(t2.val)
              /\ appears_clean_utf8(t2.val))
        => (result = SUCCESS /\ iterations = 2 /\ Len(writes) = 2)

\* C6: when repair_file returns Success, the file holds the UTF-8 encoding of
\* the last buffer repair_text returned, that buffer differs from the text
\* read, and should_repair is false for it.
C6_SuccessContent ==
    (pc = "return" /\ result = SUCCESS)
        => /\ repaired_text.ok
           /\ disk[file_path] = Utf8Encode(repaired_text.val)
           /\ repaired_text.val # original_text.val
           /\ ~should_repair(repaired_text.val)

\* repair_file has returned Success on a file that held something else
C6_Witness ==
    /\ pc = "return"
    /\ result = SUCCESS
    /\ disk[file_path] # disk0[file_path]

\* C7: one call of repair_file makes at most max_iterations calls of
\* write_file_safely, and at most one in each loop iteration.
C7_WriteBound ==
    /\ Len(writes) <= config.max_iterations
    /\ Len(writes) <= iterations
    /\ \A i, j \in 1..Len(writes) :
         i # j => writes[i].iteration # writes[j].iteration

\* the whole budget of writes has been used
C7_Witness ==
    /\ pc = "return"
    /\ writes # <<>>
    /\ Len(writes) = config.max_iterations

\* C8: a file whose extension is not skipped, that is read, and whose text
\* is clean or has no mojibake patterns (should_repair is false) gets
\* SkippedNoMojibake, with no call of repair_text and no write.
C8_CleanTextUntouched ==
    (/\ pc = "return"
     /\ Lower(file_path.suffix) \notin skip_extensions
     /\ original_text.ok
     /\ (appears_clean_utf8(original_text.val)
            \/ ~has_mojibake_patterns(original_text.val)))
        => /\ result = SKIPPED_NO_MOJIBAKE
           /\ \A i \in 1..Len(calls) :
                calls[i] \notin {"repair_text", "write_file_safely"}
           /\ writes = <<>>
           /\ disk = disk0

\* a text that is not clean and has no patterns was left alone
C8_Witness ==
    /\ pc = "return"
    /\ result = SKIPPED_NO_MOJIBAKE
    /\ original_text.ok
    /\ ~appears_clean_utf8(original_text.val)
    /\ iterations = 0
    /\ calls = << "should_skip_file", "read_file_safely", "should_repair" >>

\* C9: a file with a null byte in its first binary_check_bytes bytes never
\* reaches should_repair, repair_text or write_file_safely, and repair_file
\* returns SkippedBinary or FailedReadError for it.
C9_BinaryShortCircuit ==
    (/\ pc \notin {"main", "exit"}
     /\ \E i \in 1..Len(disk0[file_path]) :
          i <= config.binary_check_bytes /\ disk0[file_path][i] = 0)
        => /\ \A i \in 1..Len(calls) :
                calls[i] \notin {"should_repair", "repair_text", "write_file_safely"}
           /\ pc = "return" => result \in {SKIPPED_BINARY, FAILED_READ_ERROR}

\* the null byte is the last byte sampled, and content follows it
C9_Witness ==
    /\ pc = "return"
    /\ result = FAILED_READ_ERROR
    /\ config.binary_check_bytes = 2
    /\ Len(disk0[file_path]) > 2
    /\ disk0[file_path][1] # 0
    /\ disk0[file_path][2] = 0

\* C10: for a path whose extension is in skip_extensions, repair_file calls
\* nothing but should_skip_file, so it neither reads nor writes the file,
\* and returns SkippedBinary.
C10_ExtensionFirst ==
    (pc \notin {"main", "exit"} /\ Lower(file_path.suffix) \in skip_extensions)
        => /\ \A i \in 1..Len(calls) : calls[i] = "should_skip_file"
           /\ writes = <<>>
           /\ disk = disk0
           /\ pc = "return" => result = SKIPPED_BINARY

\* an upper-case extension on a file with mojibake was skipped
C10_Witness ==
    /\ pc = "return"
    /\ result = SKIPPED_BINARY
    /\ file_path.suffix = ".PNG"
    /\ Utf8Decode(disk[file_path]).ok
    /\ has_mojibake_patterns(Utf8Decode(disk[file_path]).val)

\* ------------------------------------------------------------------------
\* Properties of main
\* ------------------------------------------------------------------------

\* C11: the files are processed in argument order, each gets exactly one
\* RepairResult, whatever the results of the files before it, and the run
\* terminates.
C11_EveryFileGetsOneResult ==
    /\ [][ /\ (pc = "main" /\ pc' = "skip_check") =>
                file_path' = argv[Len(results) + 1]
           /\ results' # results =>
                /\ pc = "return"
                /\ results' = Append(results, result)
                /\ file_path = argv[Len(results')] ]_vars
    /\ [](pc = "exit" =>
            /\ Len(results) = Len(argv)
            /\ \A i \in 1..Len(results) : results[i] \in RepairResult)
    /\ <>(pc = "exit")

\* a failed file was followed by a repaired one
C11_Witness ==
    /\ pc = "exit"
    /\ Len(argv) = 2
    /\ results = << FAILED_WRITE_ERROR, SUCCESS >>


\* ------------------------------------------------------------------------
\* Properties of the repair engine and the detector
\* ------------------------------------------------------------------------

\* C12: repair_text returns the result of the first strategy whose
\* try_repair_with_strategy result is accepted and has other UTF-8 bytes than
\* the text, None when there is no such strategy, and never the text itself.
C12_FirstChangedRepair ==
    pc = "done" =>
        LET Changed(k) ==
                /\ tried[k].returned.ok
                /\ Utf8Encode(tried[k].returned.val) # Utf8Encode(current_text)
        IN  /\ \A k \in 1..Len(tried) :
                  (Changed(k) /\ \A j \in 1..(k - 1) : ~Changed(j))
                      => repaired_text = tried[k].returned
            /\ (\A k \in 1..Len(tried) : ~Changed(k)) => repaired_text = None
            /\ repaired_text.ok => repaired_text.val # current_text

\* the first strategy accepts the text unchanged and repair_text returns None
C12_Witness ==
    /\ pc = "done"
    /\ current_text # <<>>
    /\ tried[1].returned = Some(current_text)
    /\ repaired_text = None

\* C13 as stated: when two strategies pass validation, repair_text returns
\* the result of the earlier one (here: of the earliest that passes).
C13_EarlierOfValidated ==
    pc = "done" =>
        \A j, k \in 1..Len(tried) :
            ( /\ j < k
              /\ tried[j].returned.ok
              /\ tried[k].returned.ok
              /\ \A l \in 1..(j - 1) : ~tried[l].returned.ok )
                => repaired_text = tried[j].returned

\* C13 amended: when two strategies pass validation with results that differ
\* from the text, repair_text returns the result of the earlier one (of the
\* earliest such strategy).
C13_EarlierOfChanged ==
    pc = "done" =>
        \A j, k \in 1..Len(tried) :
            ( /\ j < k
              /\ tried[j].returned.ok /\ tried[j].returned.val # current_text
              /\ tried[k].returned.ok /\ tried[k].returned.val # current_text
              /\ \A l \in 1..(j - 1) :
                     tried[l].returned.ok => tried[l].returned.val = current_text )
                => repaired_text = tried[j].returned

\* latin-1 and mac_roman both yield an accepted text, not the same one
C13_Witness ==
    /\ pc = "done"
    /\ tried[1].returned.ok /\ tried[1].returned.val # current_text
    /\ tried[2].returned.ok /\ tried[2].returned.val # current_text
    /\ tried[1].returned # tried[2].returned
    /\ repaired_text = tried[1].returned

\* C14: try_repair_with_strategy returns a text only if the encoding and the
\* decoding succeeded and the decoded text is clean and without patterns; a
\* failed encoding or decoding gives None, and repair_text goes on to the
\* strategies after it.
C14_AcceptedOnlyIfValidated ==
    /\ \A k \in 1..Len(tried) :
          /\ tried[k].returned.ok =>
                /\ tried[k].encoded
                /\ tried[k].decoded.ok
                /\ tried[k].returned = tried[k].decoded
                /\ appears_clean_utf8(tried[k].returned.val)
                /\ ~has_mojibake_patterns(tried[k].returned.val)
          /\ (~tried[k].encoded \/ ~tried[k].decoded.ok) =>
                tried[k].returned = None
    /\ pc = "done" =>
          /\ Len(tried) = Len(repair_strategies)
          /\ \A k \in 1..Len(tried) :
                ( /\ tried[k].returned.ok
                  /\ tried[k].returned.val # current_text
                  /\ \A j \in 1..(k - 1) :
                         ~tried[j].encoded \/ ~tried[j].decoded.ok )
                    => repaired_text = tried[k].returned

\* latin-1 cannot encode the text, the mac_roman bytes are not UTF-8, and
\* repair_text returns what cp1252 gives
C14_Witness ==
    /\ pc = "done"
    /\ ~tried[1].encoded
    /\ tried[2].encoded /\ ~tried[2].decoded.ok
    /\ tried[3].returned.ok
    /\ repaired_text = tried[3].returned

\* C15: appears_clean_utf8 decides in this order: the empty text is clean; a
\* text with patterns is not, whatever its ratios; a text whose ASCII ratio is
\* strictly above ascii_threshold is clean; any other text is clean exactly
\* when its Japanese ratio is strictly above japanese_threshold.
C15_CleanOrder ==
    pc # "detector" =>
        LET n == Len(current_text)
            asciiAbove ==
                AsciiCount(current_text) * ThresholdScale > config.ascii_threshold * n
            japaneseAbove ==
                JapaneseCount(current_text) * ThresholdScale
                    > config.japanese_threshold * n
        IN  /\ n = 0 => detected.appears_clean_utf8
            /\ (n > 0 /\ detected.has_mojibake_patterns) =>
                  ~detected.appears_clean_utf8
            /\ (n > 0 /\ ~detected.has_mojibake_patterns /\ asciiAbove) =>
                  detected.appears_clean_utf8
            /\ (n > 0 /\ ~detected.has_mojibake_patterns /\ ~asciiAbove) =>
                  (detected.appears_clean_utf8 <=> japaneseAbove)

\* a text without patterns whose ASCII ratio equals ascii_threshold and
\* which is not clean
C15_Witness ==
    /\ pc # "detector"
    /\ current_text # <<>>
    /\ ~detected.has_mojibake_patterns
    /\ AsciiCount(current_text) * ThresholdScale
           = config.ascii_threshold * Len(current_text)
    /\ ~detected.appears_clean_utf8

\* C18: should_repair equals has_mojibake_patterns for every text, every
\* suspicious_pattern_threshold >= 0 and every pair of ratio thresholds: a
\* text with patterns is never clean.
C18_ShouldRepairIsHasPatterns ==
    (pc # "detector" /\ config.suspicious_pattern_threshold >= 0) =>
        /\ detected.should_repair = detected.has_mojibake_patterns
        /\ detected.has_mojibake_patterns => ~detected.appears_clean_utf8

\* a flagged text whose ASCII ratio is above ascii_threshold
C18_Witness ==
    /\ pc # "detector"
    /\ detected.should_repair
    /\ AsciiCount(current_text) * ThresholdScale
           > config.ascii_threshold * Len(current_text)

\* ------------------------------------------------------------------------
\* Properties of the repair loop
\* ------------------------------------------------------------------------

\* C16: a buffer returned by repair_text never needs repair, so a successful
\* write is followed at once by Success: there is at most one write per call
\* and the loop is never continued with the repaired buffer.
C16_RepairedNeedsNoRepair ==
    /\ repaired_text.ok => ~should_repair(repaired_text.val)
    /\ Len(writes) <= 1
    /\ \A i \in 1..Len(writes) :
          writes[i].ret => (pc \notin {"loop", "write"} /\ result = SUCCESS)
    /\ ~(pc = "loop" /\ iterations > 0)

\* a first write that succeeds with iterations left
C16_Witness ==
    /\ pc = "return"
    /\ result = SUCCESS
    /\ Len(writes) = 1
    /\ writes[1].ret
    /\ iterations < config.max_iterations

\* C17: FailedMaxIterations is returned exactly when max_iterations is 1 and
\* the one call of repair_text returned None; never when max_iterations >= 2.
C17_MaxIterationsOnlyAtOne ==
    pc = "return" =>
        ( result = FAILED_MAX_ITERATIONS
          <=> /\ config.max_iterations = 1
              /\ Len(SelectSeq(calls, LAMBDA c : c = "repair_text")) = 1
              /\ ~repaired_text.ok )

\* a stall in the only iteration
C17_Witness ==
    /\ pc = "return"
    /\ result = FAILED_MAX_ITERATIONS
    /\ config.max_iterations = 1
    /\ writes = <<>>

\* ------------------------------------------------------------------------
\* Properties of a second run
\* ------------------------------------------------------------------------

\* C19: when repair_file returned Success for a path, the next call on the
\* same path, whose read is not disturbed, returns SkippedNoMojibake without
\* a write and leaves the content as the first call left it.
C19_SecondRunSkips ==
    ( /\ pc = "return"
      /\ Len(results) >= 1
      /\ results[Len(results)] = SUCCESS
      /\ argv[Len(results)] = file_path
      /\ original_text = read_file_safely(file_path, TRUE) )
        => /\ result = SKIPPED_NO_MOJIBAKE
           /\ writes = <<>>
           /\ disk = disk0

==========================================================================
